---- MODULE Spec2Model ----
(***************************************************************************)
(* Model of generate_readme.py: the notebook metadata extractor, the link  *)
(* generator, the folder README builder, the main README builder and the   *)
(* orchestrator main().                                                    *)
(*                                                                         *)
(* Text is modelled as a sequence of fragments.  File names and notebook   *)
(* cell sources are sequences of one-character strings, so that replace,   *)
(* strip, split, title-casing, slicing and comparison are computed the way *)
(* Python computes them.  Fixed literals of the templates are single       *)
(* fragments.                                                              *)
(***************************************************************************)
EXTENDS Integers, Sequences, FiniteSets, TLC

\* ------------------------------------------------------------------------
\* Bounds of the model
\* ------------------------------------------------------------------------
\* Largest value of the wall clock (minutes) read by datetime.now().
MaxClock == 1

\* Number of successive executions of the generator.
MaxRuns == 2

\* Number of direct calls of the generator's functions.
MaxCalls == 1

\* Largest number of cells of a notebook document given to the extractor.
MaxCells == 2

\* Rows of a frame given to analyze_top_performers.
MaxRows == 2

\* ------------------------------------------------------------------------
\* Characters and Python string primitives
\* ------------------------------------------------------------------------
LowerLetters == {"a", "b", "c", "d", "e", "f", "h", "i", "k", "l", "m", "n",
                 "o", "p", "r", "s", "t", "x", "y"}

UpperLetters == {"A", "B", "C", "D", "E", "F", "H", "I", "K", "L", "M", "N",
                 "O", "P", "R", "S", "T", "X", "Y"}

Whitespace == {" ", "\n", "\t"}

\* ord(c): the code point, which is what Python's str comparison uses.
Ord(c) ==
    CASE c = "\t" -> 9   [] c = "\n" -> 10  [] c = " " -> 32  [] c = "#" -> 35
      [] c = "." -> 46   [] c = "A" -> 65   [] c = "B" -> 66  [] c = "C" -> 67
      [] c = "D" -> 68   [] c = "E" -> 69   [] c = "F" -> 70  [] c = "M" -> 77
      [] c = "P" -> 80   [] c = "R" -> 82   [] c = "T" -> 84  [] c = "_" -> 95
      [] c = "H" -> 72   [] c = "I" -> 73   [] c = "K" -> 75  [] c = "L" -> 76
      [] c = "N" -> 78   [] c = "O" -> 79   [] c = "S" -> 83  [] c = "X" -> 88
      [] c = "Y" -> 89
      [] c = "a" -> 97   [] c = "b" -> 98   [] c = "c" -> 99  [] c = "d" -> 100
      [] c = "e" -> 101  [] c = "f" -> 102  [] c = "h" -> 104 [] c = "i" -> 105
      [] c = "k" -> 107  [] c = "l" -> 108  [] c = "m" -> 109 [] c = "n" -> 110
      [] c = "o" -> 111  [] c = "p" -> 112  [] c = "r" -> 114 [] c = "s" -> 115
      [] c = "t" -> 116  [] c = "x" -> 120  [] c = "y" -> 121
      [] OTHER -> 0

\* str.lower() on one character.
LowerChar(c) ==
    CASE c = "A" -> "a" [] c = "B" -> "b" [] c = "C" -> "c" [] c = "D" -> "d"
      [] c = "E" -> "e" [] c = "F" -> "f" [] c = "M" -> "m" [] c = "P" -> "p"
      [] c = "R" -> "r" [] c = "T" -> "t" [] c = "H" -> "h" [] c = "I" -> "i"
      [] c = "K" -> "k" [] c = "L" -> "l" [] c = "N" -> "n" [] c = "O" -> "o"
      [] c = "S" -> "s" [] c = "X" -> "x" [] c = "Y" -> "y"
      [] OTHER -> c

\* str.upper() on one character.
UpperChar(c) ==
    CASE c = "a" -> "A" [] c = "b" -> "B" [] c = "c" -> "C" [] c = "d" -> "D"
      [] c = "e" -> "E" [] c = "f" -> "F" [] c = "h" -> "H" [] c = "i" -> "I"
      [] c = "k" -> "K" [] c = "l" -> "L" [] c = "m" -> "M" [] c = "n" -> "N"
      [] c = "o" -> "O" [] c = "p" -> "P" [] c = "r" -> "R" [] c = "s" -> "S"
      [] c = "t" -> "T" [] c = "x" -> "X" [] c = "y" -> "Y"
      [] OTHER -> c

IsCased(c) == c \in LowerLetters \cup UpperLetters

\* s.lower()
Lower(s) == [i \in 1..Len(s) |-> LowerChar(s[i])]

\* s.title(): a cased character is upper-cased when the previous character
\* is not cased, lower-cased otherwise.
Title(s) ==
    [i \in 1..Len(s) |->
        IF i > 1 /\ IsCased(s[i-1]) THEN LowerChar(s[i]) ELSE UpperChar(s[i])]

\* s.startswith(p)
StartsWith(s, p) == Len(s) >= Len(p) /\ SubSeq(s, 1, Len(p)) = p

\* s.endswith(p)
EndsWith(s, p) ==
    Len(s) >= Len(p) /\ SubSeq(s, Len(s) - Len(p) + 1, Len(s)) = p

\* s[n:]
Drop(s, n) == SubSeq(s, n + 1, Len(s))

\* s[:n]
Take(s, n) == IF Len(s) <= n THEN s ELSE SubSeq(s, 1, n)

\* s.replace(old, new): left to right, non-overlapping occurrences.
RECURSIVE Replace(_, _, _)
Replace(s, old, new) ==
    IF s = <<>> THEN <<>>
    ELSE IF StartsWith(s, old)
         THEN new \o Replace(Drop(s, Len(old)), old, new)
         ELSE <<s[1]>> \o Replace(Tail(s), old, new)

\* sub in s
Contains(s, sub) ==
    \E i \in 1..(Len(s) - Len(sub) + 1) : SubSeq(s, i, i + Len(sub) - 1) = sub

\* s.lstrip(chars)
LStrip(s, chars) ==
    LET keep == {i \in 1..Len(s) : s[i] \notin chars}
    IN  IF keep = {} THEN <<>>
        ELSE SubSeq(s, CHOOSE i \in keep : \A j \in keep : i <= j, Len(s))

\* s.rstrip(chars)
RStrip(s, chars) ==
    LET keep == {i \in 1..Len(s) : s[i] \notin chars}
    IN  IF keep = {} THEN <<>>
        ELSE SubSeq(s, 1, CHOOSE i \in keep : \A j \in keep : i >= j)

\* s.strip(chars); s.strip() is Strip(s, Whitespace)
Strip(s, chars) == RStrip(LStrip(s, chars), chars)

\* (cur + s).split('\n'): the list of lines, empty lines kept.
SplitLines(s, cur) ==
    LET t    == cur \o s
        nl   == {i \in 1..Len(t) : t[i] = "\n"}
        \* position of the k-th newline; 0 and Len(t) + 1 bound the text
        at(k) == IF k = 0 THEN 0
                 ELSE IF k > Cardinality(nl) THEN Len(t) + 1
                 ELSE CHOOSE i \in nl : Cardinality({j \in nl : j < i}) = k - 1
    IN  [k \in 1..(Cardinality(nl) + 1) |-> SubSeq(t, at(k - 1) + 1, at(k) - 1)]

\* s < t for Python strings: lexicographic by code point.
RECURSIVE StrLess(_, _)
StrLess(s, t) ==
    IF t = <<>> THEN FALSE
    ELSE IF s = <<>> THEN TRUE
    ELSE IF s[1] = t[1] THEN StrLess(Tail(s), Tail(t))
    ELSE Ord(s[1]) < Ord(t[1])

\* Insertion of one name into an ascending list.
RECURSIVE InsertSorted(_, _)
InsertSorted(x, srt) ==
    IF srt = <<>> THEN <<x>>
    ELSE IF StrLess(srt[1], x)
         THEN <<srt[1]>> \o InsertSorted(x, Tail(srt))
         ELSE <<x>> \o srt

\* Variant of Sorted: the list is left in directory order.
Unsorted(lst) == lst

\* list.sort() / sorted(list) on a list of strings.
RECURSIVE Sorted(_)
Sorted(lst) ==
    IF lst = <<>> THEN <<>>
    ELSE InsertSorted(lst[1], Sorted(Tail(lst)))

\* The elements of a list.
Range(lst) == {lst[i] : i \in 1..Len(lst)}

\* ------------------------------------------------------------------------
\* Program constants
\* ------------------------------------------------------------------------
\* folder_info.keys(), in declaration order.
FolderKeys ==
    <<"exploratory_analysis", "model_training", "model_evaluation",
      "results_visualization">>

\* The set of identifiers that have a descriptor in folder_info.
folder_info == Range(FolderKeys)

\* The notebook extension and the rendered-document extension.
IpynbExt == <<".", "i", "p", "y", "n", "b">>

HtmlExt == <<".", "h", "t", "m", "l">>

\* 'plotly', the plotting-library name searched in code cells.
PlotlyName == <<"p", "l", "o", "t", "l", "y">>

\* The description is cut at this many characters.
DescLimit == 100

\* The file name of a folder README.
ReadmeName == <<"R", "E", "A", "D", "M", "E", ".", "m", "d">>

\* ------------------------------------------------------------------------
\* Notebook documents
\* ------------------------------------------------------------------------
\* A cell as nbformat returns it.  has_type tells whether cell.cell_type
\* can be read, has_source whether cell.source can be read and is a string
\* (so that .strip() and .lower() succeed); a document that fails schema
\* validation is still returned by nbformat.read, so a cell may lack either.
Cell(type, src) ==
    [has_type |-> TRUE, cell_type |-> type, has_source |-> TRUE, source |-> src]

CellNoType(src) ==
    [has_type |-> FALSE, cell_type |-> "", has_source |-> TRUE, source |-> src]

CellNoSource(type) ==
    [has_type |-> TRUE, cell_type |-> type, has_source |-> FALSE, source |-> <<>>]

\* A document: readable = FALSE when open() or nbformat.read raises.
Notebook(cells) == [readable |-> TRUE, cells |-> cells]

Unreadable == [readable |-> FALSE, cells |-> <<>>]

\* ------------------------------------------------------------------------
\* extract_notebook_metadata
\* ------------------------------------------------------------------------
\* os.path.join(a, b) on relative paths.
PathJoin(a, b) == a \o <<"/">> \o b

\* os.path.basename(path): what follows the last separator.
RECURSIVE Basename(_)
Basename(path) ==
    IF \E i \in 1..Len(path) : path[i] = "/" THEN Basename(Tail(path)) ELSE path

\* The record the extractor starts from: title derived from the file name,
\* empty description, flag false, counts zero.
DefaultMetadata(notebook_path) ==
    [title |->
        Title(Replace(Replace(Basename(notebook_path), IpynbExt, <<>>),
                      <<"_">>, <<" ">>)),
     description |-> <<>>,
     has_plotly |-> FALSE,
     cell_count |-> 0,
     markdown_cells |-> 0,
     code_cells |-> 0]

\* sum(1 for cell in cells if cell.cell_type == t)
RECURSIVE CountType(_, _)
CountType(cells, t) ==
    IF cells = <<>> THEN 0
    ELSE (IF cells[1].cell_type = t THEN 1 ELSE 0) + CountType(Tail(cells), t)

\* The counting generator reads cell.cell_type of every cell.
AllHaveType(cells) == \A i \in 1..Len(cells) : cells[i].has_type

\* Variant of TitleScan: cells without a heading line are passed over.
RECURSIVE TitleScanHeading(_, _)
TitleScanHeading(cells, i) ==
    IF i > Len(cells) THEN [kind |-> "none", at |-> 0]
    ELSE IF cells[i].cell_type # "markdown" THEN TitleScanHeading(cells, i + 1)
    ELSE IF ~cells[i].has_source THEN [kind |-> "raise", at |-> i]
    ELSE IF /\ Strip(cells[i].source, Whitespace) # <<>>
            /\ \E j \in 1..Len(cells[i].source) :
                  cells[i].source[j] = "#"
                  /\ (j = 1 \/ cells[i].source[j - 1] = "\n")
         THEN [kind |-> "found", at |-> i]
         ELSE TitleScanHeading(cells, i + 1)

\* The title loop: the first cell, from position i on, that is markdown with
\* non-blank source.  "raise" when cell.source is read on a markdown cell
\* that has none.
RECURSIVE TitleScan(_, _)
TitleScan(cells, i) ==
    IF i > Len(cells) THEN [kind |-> "none", at |-> 0]
    ELSE IF cells[i].cell_type # "markdown" THEN TitleScan(cells, i + 1)
    ELSE IF ~cells[i].has_source THEN [kind |-> "raise", at |-> i]
    ELSE IF Strip(cells[i].source, Whitespace) # <<>>
         THEN [kind |-> "found", at |-> i]
         ELSE TitleScan(cells, i + 1)

\* lines = cell.source.strip().split('\n')
CellLines(source) == SplitLines(Strip(source, Whitespace), <<>>)

\* The lines that start with the heading marker, in order.
RECURSIVE HeadingLines(_)
HeadingLines(lines) ==
    IF lines = <<>> THEN <<>>
    ELSE (IF StartsWith(lines[1], <<"#">>) THEN <<lines[1]>> ELSE <<>>)
         \o HeadingLines(Tail(lines))

\* remaining_lines = [line for line in lines
\*                    if not line.startswith('#') and line.strip()]
RECURSIVE RemainingLines(_)
RemainingLines(lines) ==
    IF lines = <<>> THEN <<>>
    ELSE (IF ~StartsWith(lines[1], <<"#">>) /\ Strip(lines[1], Whitespace) # <<>>
          THEN <<lines[1]>> ELSE <<>>)
         \o RemainingLines(Tail(lines))

\* line.strip('#').strip()
HeadingText(line) == Strip(Strip(line, {"#"}), Whitespace)

\* Variant of Truncate: a line of exactly the limit is cut as well.
TruncateAtLimit(line) ==
    IF Len(line) >= DescLimit
    THEN Take(line, DescLimit) \o <<".", ".", ".">>
    ELSE line

\* remaining_lines[0][:100] + '...' if len(remaining_lines[0]) > 100
\* else remaining_lines[0]
Truncate(line) ==
    IF Len(line) > DescLimit
    THEN Take(line, DescLimit) \o <<".", ".", ".">>
    ELSE line

\* The body of the title loop on the examined cell.
WithTitle(metadata, source) ==
    LET lines == CellLines(source)
        heads == HeadingLines(lines)
        rest  == RemainingLines(lines)
        m1    == IF heads # <<>>
                 THEN [metadata EXCEPT !.title = HeadingText(heads[1])]
                 ELSE metadata
    IN  IF rest # <<>>
        THEN [m1 EXCEPT !.description = Truncate(rest[1])]
        ELSE m1

\* Variant of PlotlyScan: the cell type is not looked at.
RECURSIVE PlotlyScanAnyCell(_, _)
PlotlyScanAnyCell(cells, i) ==
    IF i > Len(cells) THEN "false"
    ELSE IF ~cells[i].has_source THEN "raise"
    ELSE IF Contains(Lower(cells[i].source), PlotlyName) THEN "true"
    ELSE PlotlyScanAnyCell(cells, i + 1)

\* The Plotly loop from position i on: "true" at the first code cell whose
\* lower-cased source contains 'plotly', "raise" when cell.source is read on
\* a code cell that has none, "false" at the end of the list.
RECURSIVE PlotlyScan(_, _)
PlotlyScan(cells, i) ==
    IF i > Len(cells) THEN "false"
    ELSE IF cells[i].cell_type # "code" THEN PlotlyScan(cells, i + 1)
    ELSE IF ~cells[i].has_source THEN "raise"
    ELSE IF Contains(Lower(cells[i].source), PlotlyName) THEN "true"
    ELSE PlotlyScan(cells, i + 1)

\* extract_notebook_metadata(notebook_path), nb being what open() and
\* nbformat.read give for that path.  metadata is one dictionary updated in
\* place inside the try block; the except clause prints the warning and the
\* function returns the dictionary as it is at that point.
extract_notebook_metadata(notebook_path, nb) ==
    LET m0 == DefaultMetadata(notebook_path)
        m1 == [m0 EXCEPT !.cell_count = Len(nb.cells)]
        m3 == [m1 EXCEPT !.code_cells = CountType(nb.cells, "code"),
                         !.markdown_cells = CountType(nb.cells, "markdown")]
        ts == TitleScan(nb.cells, 1)
        m4 == IF ts.kind = "found"
              THEN WithTitle(m3, nb.cells[ts.at].source)
              ELSE m3
        ps == PlotlyScan(nb.cells, 1)
    IN  IF ~nb.readable THEN [metadata |-> m0, warned |-> TRUE]
        ELSE IF ~AllHaveType(nb.cells) THEN [metadata |-> m1, warned |-> TRUE]
        ELSE IF ts.kind = "raise" THEN [metadata |-> m3, warned |-> TRUE]
        ELSE IF ps = "raise" THEN [metadata |-> m4, warned |-> TRUE]
        ELSE [metadata |-> [m4 EXCEPT !.has_plotly = (ps = "true")],
              warned |-> FALSE]

\* ------------------------------------------------------------------------
\* The files the generator runs on
\* ------------------------------------------------------------------------
NbA == <<"a">> \o IpynbExt

NbB == <<"b">> \o IpynbExt

NbC == <<"c">> \o IpynbExt

NbD == <<"d">> \o IpynbExt

NbE == <<"e">> \o IpynbExt

NbUpperB == <<"B">> \o IpynbExt

NbAB == <<"a", "_", "b">> \o IpynbExt

NbTwice == <<"a">> \o IpynbExt \o IpynbExt

NotesTxt == <<"n", ".", "t", "x", "t">>

NbBackup == <<"c">> \o IpynbExt \o <<".", "b", "a", "k">>

\* The document stored under each notebook file name.
NotebookAt(name) ==
    CASE name = NbA ->
            Notebook(<<Cell("markdown", <<"#", " ", "A", "b", "\n", "c", "d">>),
                       Cell("code", <<"P", "l", "o", "t", "l", "y", ".", "e">>)>>)
      [] name = NbB -> Unreadable
      [] name = NbC ->
            Notebook(<<Cell("code", <<"x">>), CellNoType(<<"y">>)>>)
      [] name = NbD ->
            Notebook(<<Cell("markdown", <<"#", " ", "T", "\n", "d", "e">>),
                       CellNoSource("code")>>)
      [] name = NbE ->
            Notebook(<<Cell("code", <<"x">>), CellNoSource("markdown")>>)
      [] name = NbUpperB -> Notebook(<<>>)
      [] name = NbAB ->
            Notebook(<<Cell("markdown", <<" ", "\n">>),
                       Cell("markdown", <<"t", "e", "x", "t">>),
                       Cell("markdown", <<"#", " ", "L", "a", "t", "e", "r">>),
                       Cell("raw", <<"p", "l", "o", "t", "l", "y">>)>>)
      [] name = NbTwice ->
            Notebook(<<Cell("code", <<"x">>),
                       Cell("markdown",
                            <<"\n", "t", "\n", "#", "#", " ", "A", "b", " ", "#">>),
                       Cell("markdown", <<"p", "l", "o", "t", "l", "y">>)>>)
      [] OTHER -> Unreadable

\* os.path.getmtime of a notebook file, as the day it formats to.
ModifiedDay(name) == IF name \in {NbA, NbB} THEN 1 ELSE 2

\* Directory contents a folder can start with, in directory order.
EmptyListing == <<>>

SmallListing == <<NbB, NotesTxt, NbA>>

LargeListing == <<NbD, NbUpperB, NbBackup, NbTwice, NbC, ReadmeName, NbE, NbAB>>

\* The contents of the four known folders, for those that exist.
Layouts ==
    { [exploratory_analysis  |-> SmallListing,
       model_training        |-> EmptyListing,
       model_evaluation      |-> LargeListing,
       results_visualization |-> SmallListing],
      [exploratory_analysis  |-> LargeListing,
       model_training        |-> SmallListing,
       model_evaluation      |-> EmptyListing,
       results_visualization |-> LargeListing] }

\* Rendered documents docs/ can start with.
DocsOptions ==
    { {},
      { <<"a">> \o HtmlExt, <<"d">> \o HtmlExt, <<"a">> \o HtmlExt \o HtmlExt,
        <<"a", "_", "b">> \o HtmlExt } }

\* A directory under notebooks/ that has no descriptor.
UnknownKey == "archive"

AllDirs == folder_info \cup {UnknownKey}

MissingDir == [exists |-> FALSE, entries |-> <<>>]

Dir(entries) == [exists |-> TRUE, entries |-> entries]

VARIABLES
    baseExists,         \* os.path.exists("notebooks")
    folders,            \* per directory under notebooks/: exists, entries
    docs,               \* file names present in docs/
    readme,             \* per directory: the lines of its README.md
    mainReadme,         \* the lines of NOTEBOOKS_README.md, <<>> if absent
    clock,              \* datetime.now(), minutes
    pc,                 \* position of main()
    idx,                \* position of main()'s loop in folder_info.keys()
    folders_processed,  \* main()'s counter
    exit_status,        \* -1 while running, else the process exit status
    trace,              \* calls, writes and console lines of this run
    summary,            \* the folder paths listed by the final summary
    run,                \* number of the current execution
    firstRun,           \* output files as the first execution left them
    before,             \* the files as they were when this execution started
    ret,                \* last direct call of a function and what it returned
    calls,              \* number of direct calls made
    train_df            \* self.train_df of the OptimizedRetailSalesAnalyzer

vars ==
    <<baseExists, folders, docs, readme, mainReadme, clock, pc, idx,
      folders_processed, exit_status, trace, summary, run, firstRun,
      before, ret, calls, train_df>>

\* ------------------------------------------------------------------------
\* The filesystem as the generator reads it
\* ------------------------------------------------------------------------
\* os.path.join("notebooks", folder_key)
FolderPath(folder_key) == PathJoin(<<"notebooks">>, <<folder_key>>)

\* The directory a folder path names.
DirOf(folder_path) == folder_path[Len(folder_path)]

\* os.path.exists(folder_path) for a path under notebooks/.
FolderExists(folder_path) ==
    /\ baseExists
    /\ DirOf(folder_path) \in AllDirs
    /\ folders[DirOf(folder_path)].exists

\* os.listdir(folder_path)
ListDir(folder_path) == folders[DirOf(folder_path)].entries

\* os.path.exists(f"docs/{name}")
DocExists(path) == Tail(path) \in docs

\* open(notebook_path) followed by nbformat.read.
ReadNotebook(notebook_path) ==
    LET dir == notebook_path[3]
    IN  IF /\ baseExists
           /\ dir \in AllDirs
           /\ folders[dir].exists
           /\ Basename(notebook_path) \in Range(folders[dir].entries)
        THEN NotebookAt(Basename(notebook_path))
        ELSE Unreadable

\* ------------------------------------------------------------------------
\* Lines of the generated documents
\* ------------------------------------------------------------------------
TextLine(t) == [kind |-> "text", text |-> t]

RowLine(title, description, view_options, modified_date) ==
    [kind |-> "row", title |-> title, description |-> description,
     view_options |-> view_options, modified_date |-> modified_date]

\* "| *No notebooks yet* | | | |"
PlaceholderRow == [kind |-> "placeholder"]

\* The footer line carrying datetime.now().
GeneratedLine(now) == [kind |-> "generated", at |-> now]

\* The "- [title](docs/file.html)" line of the overview.
LinkLine(title, target) == [kind |-> "link", title |-> title, target |-> target]

\* folder_info[folder_key]
FolderTitle(folder_key) == <<"title of ", folder_key>>

FolderDescription(folder_key) == <<"description of ", folder_key>>

FolderObjectives(folder_key) ==
    << <<"objective 1 of ", folder_key>>, <<"objective 2 of ", folder_key>>,
       <<"objective 3 of ", folder_key>> >>

\* ------------------------------------------------------------------------
\* generate_notebook_links
\* ------------------------------------------------------------------------
generate_notebook_links(notebook_file, folder) ==
    LET base_name == Replace(notebook_file, IpynbExt, <<>>)
    IN  [github_link |-> <<"notebooks", "/", folder, "/">> \o notebook_file,
         html_link   |-> <<"docs/">> \o base_name \o HtmlExt]

\* ------------------------------------------------------------------------
\* generate_folder_readme
\* ------------------------------------------------------------------------
\* Variant of IsNotebookFile: every directory entry is taken.
IsListedFile(f) == TRUE

\* f.endswith('.ipynb')
IsNotebookFile(f) == EndsWith(f, IpynbExt)

\* [f for f in lst if f.endswith('.ipynb')]
RECURSIVE FilterNotebooks(_)
FilterNotebooks(lst) ==
    IF lst = <<>> THEN <<>>
    ELSE (IF IsNotebookFile(lst[1]) THEN <<lst[1]>> ELSE <<>>)
         \o FilterNotebooks(Tail(lst))

\* notebook_files after notebook_files.sort()
NotebookFiles(folder_path) == Sorted(FilterNotebooks(ListDir(folder_path)))

\* What extract_notebook_metadata gives for a file of a folder.
MetadataOf(folder_path, notebook_file) ==
    LET notebook_path == PathJoin(folder_path, notebook_file)
    IN  extract_notebook_metadata(notebook_path, ReadNotebook(notebook_path))

\* f"docs/{notebook_file.replace('.ipynb', '.html')}": the path whose
\* existence decides whether the row gets its rendered-view link.
CheckedDocPath(notebook_file) ==
    <<"docs/">> \o Replace(notebook_file, IpynbExt, HtmlExt)

\* The view-options cell of a row.
ViewOptions(notebook_file, folder_key, has_plotly) ==
    LET links == generate_notebook_links(notebook_file, folder_key)
        code  == <<"[Code](">> \o links.github_link \o <<")">>
        html  == IF DocExists(CheckedDocPath(notebook_file))
                 THEN code \o <<" * [HTML](">> \o links.html_link \o <<")">>
                 ELSE code
    IN  IF has_plotly THEN html \o <<" [chart]">> ELSE html

\* The table row appended for one notebook file.
NotebookRow(folder_path, folder_key, notebook_file) ==
    LET metadata == MetadataOf(folder_path, notebook_file).metadata
    IN  RowLine(metadata.title,
                IF metadata.description # <<>> THEN metadata.description
                ELSE <<"Analysis notebook">>,
                ViewOptions(notebook_file, folder_key, metadata.has_plotly),
                ModifiedDay(notebook_file))

\* The body of the loop over notebook_files.
RECURSIVE NotebookRows(_, _, _)
NotebookRows(folder_path, folder_key, files) ==
    IF files = <<>> THEN <<>>
    ELSE <<NotebookRow(folder_path, folder_key, files[1])>>
         \o NotebookRows(folder_path, folder_key, Tail(files))

\* Variant of TableBody: no placeholder for an empty folder.
TableBodyRowsOnly(rows) == rows

\* The table body: the rows, or the placeholder when notebooks_found == 0.
TableBody(rows) == IF Len(rows) = 0 THEN <<PlaceholderRow>> ELSE rows

\* The extractor calls of a loop over notebook files, each followed by its
\* "Warning: Could not read notebook" line when the extraction failed.
RECURSIVE NotebookEvents(_, _, _)
NotebookEvents(folder_path, folder_key, files) ==
    IF files = <<>> THEN <<>>
    ELSE <<[ev |-> "extract", key |-> folder_key]>>
         \o (IF MetadataOf(folder_path, files[1]).warned
             THEN <<[ev |-> "warn_notebook", key |-> folder_key]>> ELSE <<>>)
         \o NotebookEvents(folder_path, folder_key, Tail(files))

\* The objectives section.
ObjectiveLines(folder_key) ==
    [i \in 1..Len(FolderObjectives(folder_key)) |->
        TextLine(<<"- ">> \o FolderObjectives(folder_key)[i])]

\* Lines 118-186 of generate_folder_readme, after the descriptor was found.
\* os.listdir raises when the folder does not exist.
FolderReadmeBody(folder_path, folder_key, now) ==
    IF ~FolderExists(folder_path)
    THEN [wrote |-> FALSE, raised |-> TRUE, lines |-> <<>>,
          notebooks_found |-> 0,
          events |-> <<[ev |-> "listdir", key |-> DirOf(folder_path)]>>]
    ELSE
      LET notebook_files == NotebookFiles(folder_path)
          rows == NotebookRows(folder_path, folder_key, notebook_files)
          readme_lines ==
              << TextLine(<<"# ">> \o FolderTitle(folder_key)),
                 TextLine(<<>>),
                 TextLine(FolderDescription(folder_key)),
                 TextLine(<<>>),
                 TextLine(<<"## Notebooks">>),
                 TextLine(<<>>),
                 TextLine(<<"| Notebook | Description | View Options | Last Updated |">>),
                 TextLine(<<"|----------|-------------|--------------|--------------|">>) >>
              \o TableBody(rows)
              \o << TextLine(<<>>), TextLine(<<"## Key Objectives">>), TextLine(<<>>) >>
              \o ObjectiveLines(folder_key)
              \o << TextLine(<<>>),
                    TextLine(<<"## Navigation">>),
                    TextLine(<<>>),
                    TextLine(<<"- [Back to Main Project](../README.md)">>),
                    TextLine(<<"- [Interactive Results](../docs/)">>),
                    TextLine(<<>>),
                    TextLine(<<"---">>),
                    GeneratedLine(now) >>
      IN  [wrote |-> TRUE, raised |-> FALSE, lines |-> readme_lines,
           notebooks_found |-> Len(rows),
           events |-> <<[ev |-> "listdir", key |-> DirOf(folder_path)]>>
                      \o NotebookEvents(folder_path, folder_key, notebook_files)
                      \o <<[ev |-> "write_folder", key |-> DirOf(folder_path)],
                           [ev |-> "generated_folder", key |-> folder_key]>>]

\* Variant of generate_folder_readme: the descriptor lookup is not checked.
generate_folder_readme_unchecked(folder_path, folder_key, now) ==
    FolderReadmeBody(folder_path, folder_key, now)

\* generate_folder_readme(folder_path, folder_key) with datetime.now() = now:
\* whether README.md is written, its lines, and the calls and console lines.
generate_folder_readme(folder_path, folder_key, now) ==
    IF folder_key \notin folder_info
    THEN [wrote |-> FALSE, raised |-> FALSE, lines |-> <<>>,
          notebooks_found |-> 0,
          events |-> <<[ev |-> "warn_no_info", key |-> folder_key]>>]
    ELSE FolderReadmeBody(folder_path, folder_key, now)

\* Variant of WriteFolderReadme: the directory is cleared before README.md
\* is written.
WriteFolderReadmeCleared(folder_path, lines) ==
    LET dir == DirOf(folder_path)
    IN  /\ readme' = [readme EXCEPT ![dir] = lines]
        /\ folders' = [folders EXCEPT ![dir].entries = <<ReadmeName>>]

\* open(readme_path, 'w') and write: README.md of the directory is created
\* or replaced in full.
WriteFolderReadme(folder_path, lines) ==
    LET dir == DirOf(folder_path)
    IN  /\ readme' = [readme EXCEPT ![dir] = lines]
        /\ folders' =
             [folders EXCEPT ![dir].entries =
                 IF ReadmeName \in Range(@) THEN @ ELSE Append(@, ReadmeName)]

\* ------------------------------------------------------------------------
\* generate_main_readme
\* ------------------------------------------------------------------------
\* The link lines of one folder: one per notebook, in sorted order, whose
\* rendered document exists.
RECURSIVE QuickLinks(_, _)
QuickLinks(folder_path, files) ==
    IF files = <<>> THEN <<>>
    ELSE LET html_file == Replace(files[1], IpynbExt, HtmlExt)
         IN  (IF DocExists(<<"docs/">> \o html_file)
              THEN <<LinkLine(MetadataOf(folder_path, files[1]).metadata.title,
                              <<"docs/">> \o html_file)>>
              ELSE <<>>)
             \o QuickLinks(folder_path, Tail(files))

\* The first loop over folder_info.keys(), from position i on.
RECURSIVE QuickAccess(_)
QuickAccess(i) ==
    IF i > Len(FolderKeys) THEN <<>>
    ELSE LET folder_key == FolderKeys[i]
             folder_path == FolderPath(folder_key)
         IN  (IF FolderExists(folder_path)
              THEN <<TextLine(<<"### ">> \o FolderTitle(folder_key))>>
                   \o QuickLinks(folder_path, NotebookFiles(folder_path))
                   \o <<TextLine(<<>>)>>
              ELSE <<>>)
             \o QuickAccess(i + 1)

\* Variant of Technical: the folder's existence is not looked at.
RECURSIVE TechnicalEvery(_)
TechnicalEvery(i) ==
    IF i > Len(FolderKeys) THEN <<>>
    ELSE LET folder_key == FolderKeys[i]
         IN  << TextLine(<<"### [">> \o FolderTitle(folder_key)
                         \o <<"](notebooks/", folder_key, "/)">>),
                TextLine(FolderDescription(folder_key)),
                TextLine(<<>>) >>
             \o TechnicalEvery(i + 1)

\* The second loop over folder_info.keys(), from position i on.
RECURSIVE Technical(_)
Technical(i) ==
    IF i > Len(FolderKeys) THEN <<>>
    ELSE LET folder_key == FolderKeys[i]
         IN  (IF FolderExists(FolderPath(folder_key))
              THEN << TextLine(<<"### [">> \o FolderTitle(folder_key)
                               \o <<"](notebooks/", folder_key, "/)">>),
                      TextLine(FolderDescription(folder_key)),
                      TextLine(<<>>) >>
              ELSE <<>>)
             \o Technical(i + 1)

\* The extractor calls and warnings of the first loop.
RECURSIVE MainEvents(_)
MainEvents(i) ==
    IF i > Len(FolderKeys) THEN <<>>
    ELSE LET folder_key == FolderKeys[i]
             folder_path == FolderPath(folder_key)
         IN  (IF FolderExists(folder_path)
              THEN NotebookEvents(folder_path, folder_key,
                                  NotebookFiles(folder_path))
              ELSE <<>>)
             \o MainEvents(i + 1)

\* generate_main_readme() with datetime.now() = now.
generate_main_readme(now) ==
    [lines |->
        << TextLine(<<"# Time Series Analysis - Notebook Overview">>),
           TextLine(<<>>),
           TextLine(<<"Auto-generated overview of all analysis notebooks in this project.">>),
           TextLine(<<>>),
           TextLine(<<"## Quick Access - Interactive Results">>),
           TextLine(<<>>),
           TextLine(<<"*Perfect for presentations and stakeholders - all plots are interactive:*">>),
           TextLine(<<>>) >>
        \o QuickAccess(1)
        \o << TextLine(<<"## Technical Notebooks">>),
              TextLine(<<>>),
              TextLine(<<"*For developers and data scientists:*">>),
              TextLine(<<>>) >>
        \o Technical(1)
        \o << TextLine(<<"---">>), GeneratedLine(now) >>,
     events |->
        MainEvents(1)
        \o <<[ev |-> "write_main", key |-> ""],
             [ev |-> "generated_main", key |-> ""]>>]

\* ------------------------------------------------------------------------
\* Initial states
\* ------------------------------------------------------------------------
\* A README.md that is in a folder before the generator runs.
OldReadme == <<TextLine(<<"old">>)>>

NoSnapshot == [taken |-> FALSE, readme |-> <<>>, mainReadme |-> <<>>]

NoCall == [fn |-> "none"]

\* No analyzer has been constructed.
NoFrame == [columns |-> {}, open_values |-> 0, raising |-> {}]

\* The directories and the generated files as they are now.
Snapshot == [folders |-> folders, readme |-> readme, mainReadme |-> mainReadme]

\* The README.md contents that go with the directory entries.
ReadmeOf(fs) ==
    [d \in AllDirs |->
        IF ReadmeName \in Range(fs[d].entries) THEN OldReadme ELSE <<>>]

\* What is common to every initial state.
InitCommon ==
    /\ docs \in DocsOptions
    /\ readme = ReadmeOf(folders)
    /\ mainReadme \in {<<>>, OldReadme}
    /\ before = Snapshot
    /\ clock = 0
    /\ idx = 1
    /\ folders_processed = 0
    /\ exit_status = -1
    /\ trace = <<>>
    /\ summary = <<>>
    /\ run = 1
    /\ firstRun = NoSnapshot
    /\ ret = NoCall
    /\ calls = 0

\* The process is started in a working directory: notebooks/ may be absent;
\* when present, any subset of the known folders is present, with the
\* contents one of the layouts gives them.
Init ==
    /\ baseExists \in BOOLEAN
    /\ \E present \in SUBSET folder_info, layout \in Layouts :
          folders = [d \in AllDirs |->
                        IF ~baseExists THEN MissingDir
                        ELSE IF d = UnknownKey THEN Dir(<<NbA, ReadmeName>>)
                        ELSE IF d \in present THEN Dir(layout[d])
                        ELSE MissingDir]
    /\ pc = "start"
    /\ InitCommon
    /\ train_df = NoFrame

\* ------------------------------------------------------------------------
\* main()
\* ------------------------------------------------------------------------
\* print(f"Warning / Error ...") and the other console lines and calls.
Emit(events) == trace' = trace \o events

\* Variant of MainBaseMissing: the error is printed and the run goes on.
MainBaseMissingNoExit ==
    /\ pc = "start"
    /\ ~baseExists
    /\ Emit(<<[ev |-> "error_base_missing", key |-> ""]>>)
    /\ folders_processed' = 0
    /\ idx' = 1
    /\ pc' = "folders"
    /\ UNCHANGED <<baseExists, folders, docs, readme, mainReadme, clock,
                   exit_status, summary, run, firstRun, before, ret, calls>>
    /\ UNCHANGED train_df

\* Lines 252-254: the base directory is absent, print the error, sys.exit(1).
MainBaseMissing ==
    /\ pc = "start"
    /\ ~baseExists
    /\ Emit(<<[ev |-> "error_base_missing", key |-> ""]>>)
    /\ exit_status' = 1
    /\ pc' = "exited"
    /\ UNCHANGED <<baseExists, folders, docs, readme, mainReadme, clock, idx,
                   folders_processed, summary, run, firstRun, before, ret, calls>>
    /\ UNCHANGED train_df

\* Lines 252-257: the base directory exists, the loop begins.
MainBegin ==
    /\ pc = "start"
    /\ baseExists
    /\ folders_processed' = 0
    /\ idx' = 1
    /\ pc' = "folders"
    /\ UNCHANGED <<baseExists, folders, docs, readme, mainReadme, clock,
                   exit_status, trace, summary, run, firstRun, before, ret, calls>>
    /\ UNCHANGED train_df

\* Lines 258-262: one iteration of the loop on a folder that exists.
MainFolderPresent ==
    /\ pc = "folders"
    /\ idx <= Len(FolderKeys)
    /\ LET folder_key == FolderKeys[idx]
           folder_path == FolderPath(folder_key)
       IN  /\ FolderExists(folder_path)
           /\ \E now \in clock..MaxClock :
                LET r == generate_folder_readme(folder_path, folder_key, now)
                IN  /\ clock' = (IF r.wrote THEN now ELSE clock)
                    /\ IF r.wrote
                       THEN WriteFolderReadme(folder_path, r.lines)
                       ELSE UNCHANGED <<readme, folders>>
                    /\ Emit(<<[ev |-> "call_folder", key |-> folder_key]>>
                            \o r.events
                            \o <<[ev |-> "return_folder", key |-> folder_key]>>)
    /\ folders_processed' = folders_processed + 1
    /\ idx' = idx + 1
    /\ UNCHANGED <<baseExists, docs, mainReadme, pc, exit_status, summary, run,
                   firstRun, before, ret, calls>>
    /\ UNCHANGED train_df

\* Variant of MainFolderAbsent: a missing folder ends the process.
MainFolderAbsentAborts ==
    /\ pc = "folders"
    /\ idx <= Len(FolderKeys)
    /\ ~FolderExists(FolderPath(FolderKeys[idx]))
    /\ Emit(<<[ev |-> "warn_folder_missing", key |-> FolderKeys[idx]]>>)
    /\ exit_status' = 1
    /\ pc' = "exited"
    /\ UNCHANGED <<baseExists, folders, docs, readme, mainReadme, clock, idx,
                   folders_processed, summary, run, firstRun, before, ret,
                   calls>>
    /\ UNCHANGED train_df

\* Variant of MainFolderAbsent: a missing folder is counted as processed.
MainFolderAbsentCounted ==
    /\ pc = "folders"
    /\ idx <= Len(FolderKeys)
    /\ ~FolderExists(FolderPath(FolderKeys[idx]))
    /\ Emit(<<[ev |-> "warn_folder_missing", key |-> FolderKeys[idx]]>>)
    /\ folders_processed' = folders_processed + 1
    /\ idx' = idx + 1
    /\ UNCHANGED <<baseExists, folders, docs, readme, mainReadme, clock, pc,
                   exit_status, summary, run, firstRun, before, ret, calls>>
    /\ UNCHANGED train_df

\* Lines 258-264: one iteration of the loop on a folder that is absent.
MainFolderAbsent ==
    /\ pc = "folders"
    /\ idx <= Len(FolderKeys)
    /\ ~FolderExists(FolderPath(FolderKeys[idx]))
    /\ Emit(<<[ev |-> "warn_folder_missing", key |-> FolderKeys[idx]]>>)
    /\ idx' = idx + 1
    /\ UNCHANGED <<baseExists, folders, docs, readme, mainReadme, clock, pc,
                   folders_processed, exit_status, summary, run, firstRun, before,
                   ret, calls>>
    /\ UNCHANGED train_df

\* Variant of MainOverview: the overview is built only when a folder was
\* processed.
MainOverviewIfProcessed ==
    /\ pc = "folders"
    /\ idx > Len(FolderKeys)
    /\ \E now \in clock..MaxClock :
         LET r == generate_main_readme(now)
         IN  IF folders_processed > 0
             THEN /\ clock' = now
                  /\ mainReadme' = r.lines
                  /\ Emit(<<[ev |-> "call_main", key |-> ""]>> \o r.events
                          \o <<[ev |-> "return_main", key |-> ""]>>)
             ELSE UNCHANGED <<clock, mainReadme, trace>>
    /\ pc' = "summary"
    /\ UNCHANGED <<baseExists, folders, docs, readme, idx, folders_processed,
                   exit_status, summary, run, firstRun, before, ret, calls>>
    /\ UNCHANGED train_df

\* Line 267: generate_main_readme() after the loop.
MainOverview ==
    /\ pc = "folders"
    /\ idx > Len(FolderKeys)
    /\ \E now \in clock..MaxClock :
         LET r == generate_main_readme(now)
         IN  /\ clock' = now
             /\ mainReadme' = r.lines
             /\ Emit(<<[ev |-> "call_main", key |-> ""]>> \o r.events
                     \o <<[ev |-> "return_main", key |-> ""]>>)
    /\ pc' = "summary"
    /\ UNCHANGED <<baseExists, folders, docs, readme, idx, folders_processed,
                   exit_status, summary, run, firstRun, before, ret, calls>>
    /\ UNCHANGED train_df

\* Variant of SummaryPaths: a path for every identifier.
SummaryPathsAll(i) ==
    [j \in 1..(Len(FolderKeys) + 1 - i) |->
        <<"notebooks/", FolderKeys[j + i - 1], "/README.md">>]

\* The folder paths printed by lines 272-275, from position i on.
RECURSIVE SummaryPaths(_)
SummaryPaths(i) ==
    IF i > Len(FolderKeys) THEN <<>>
    ELSE (IF FolderExists(FolderPath(FolderKeys[i]))
          THEN << <<"notebooks/", FolderKeys[i], "/README.md">> >>
          ELSE <<>>)
         \o SummaryPaths(i + 1)

\* Lines 269-275: the summary; main() returns and the process exits with 0.
MainSummary ==
    /\ pc = "summary"
    /\ summary' = SummaryPaths(1)
    /\ Emit(<<[ev |-> "complete", key |-> ""]>>)
    /\ exit_status' = 0
    /\ pc' = "done"
    /\ UNCHANGED <<baseExists, folders, docs, readme, mainReadme, clock, idx,
                   folders_processed, run, firstRun, before, ret, calls>>
    /\ UNCHANGED train_df

\* The generator is started again on the files the previous execution left.
Rerun ==
    /\ pc \in {"done", "exited"}
    /\ run < MaxRuns
    /\ run' = run + 1
    /\ firstRun' = IF firstRun.taken THEN firstRun
                   ELSE [taken |-> TRUE, readme |-> readme,
                         mainReadme |-> mainReadme]
    /\ pc' = "start"
    /\ idx' = 1
    /\ folders_processed' = 0
    /\ exit_status' = -1
    /\ trace' = <<>>
    /\ summary' = <<>>
    /\ before' = Snapshot
    /\ UNCHANGED <<baseExists, folders, docs, readme, mainReadme, clock, ret,
                   calls>>
    /\ UNCHANGED train_df

Next ==
    \/ MainBaseMissing
    \/ MainBegin
    \/ MainFolderPresent
    \/ MainFolderAbsent
    \/ MainOverview
    \/ MainSummary
    \/ Rerun

Spec == Init /\ [][Next]_vars

\* ------------------------------------------------------------------------
\* The functions called directly
\* ------------------------------------------------------------------------
\* The file names a caller passes.
CallNames == {NbA, NbB, NbC, NbD, NbE, NbUpperB, NbAB, NbTwice, NotesTxt}

\* The folder identifiers a caller passes.
CallKeys == {"exploratory_analysis", "model_evaluation", UnknownKey}

\* notebooks/ exists and holds the folders of one layout, either all four or
\* only model_training and model_evaluation.
InitCalls ==
    /\ baseExists = TRUE
    /\ \E present \in {folder_info, {"model_training", "model_evaluation"}},
          layout \in Layouts :
          folders = [d \in AllDirs |->
                        IF d = UnknownKey THEN Dir(<<NbA, ReadmeName>>)
                        ELSE IF d \in present THEN Dir(layout[d])
                        ELSE MissingDir]
    /\ pc = "api"
    /\ InitCommon
    /\ train_df = NoFrame

\* extract_notebook_metadata(notebook_path) on a path under notebooks/.
CallExtract ==
    /\ pc = "api"
    /\ calls < MaxCalls
    /\ \E dir \in CallKeys, name \in CallNames :
         LET notebook_path == PathJoin(FolderPath(dir), name)
             r == extract_notebook_metadata(notebook_path,
                                            ReadNotebook(notebook_path))
         IN  /\ ret' = [fn |-> "extract_notebook_metadata",
                        notebook_path |-> notebook_path,
                        nb |-> ReadNotebook(notebook_path),
                        metadata |-> r.metadata, warned |-> r.warned]
             /\ trace' = IF r.warned
                         THEN <<[ev |-> "warn_notebook", key |-> dir]>>
                         ELSE <<>>
    /\ calls' = calls + 1
    /\ UNCHANGED <<baseExists, folders, docs, readme, mainReadme, clock, pc,
                   idx, folders_processed, exit_status, summary, run, firstRun,
                   before>>
    /\ UNCHANGED train_df

\* generate_folder_readme(folder_path, folder_key) on a path under notebooks/.
CallFolderReadme ==
    /\ pc = "api"
    /\ calls < MaxCalls
    /\ \E dir \in CallKeys, folder_key \in CallKeys, now \in clock..MaxClock :
         LET folder_path == FolderPath(dir)
             r == generate_folder_readme(folder_path, folder_key, now)
         IN  /\ clock' = (IF r.wrote THEN now ELSE clock)
             /\ IF r.wrote
                THEN WriteFolderReadme(folder_path, r.lines)
                ELSE UNCHANGED <<readme, folders>>
             /\ trace' = r.events
             /\ ret' = [fn |-> "generate_folder_readme",
                        folder_path |-> folder_path, folder_key |-> folder_key,
                        wrote |-> r.wrote, raised |-> r.raised]
    /\ calls' = calls + 1
    /\ UNCHANGED <<baseExists, docs, mainReadme, pc, idx, folders_processed,
                   exit_status, summary, run, firstRun, before>>
    /\ UNCHANGED train_df

\* generate_main_readme()
CallMainReadme ==
    /\ pc = "api"
    /\ calls < MaxCalls
    /\ \E now \in clock..MaxClock :
         LET r == generate_main_readme(now)
         IN  /\ clock' = now
             /\ mainReadme' = r.lines
             /\ trace' = r.events
             /\ ret' = [fn |-> "generate_main_readme"]
    /\ calls' = calls + 1
    /\ UNCHANGED <<baseExists, folders, docs, readme, pc, idx,
                   folders_processed, exit_status, summary, run, firstRun,
                   before>>
    /\ UNCHANGED train_df

NextCalls ==
    \/ CallExtract
    \/ CallFolderReadme
    \/ CallMainReadme

SpecCalls == InitCalls /\ [][NextCalls]_vars

\* ------------------------------------------------------------------------
\* The pure functions applied to chosen arguments
\* ------------------------------------------------------------------------
\* n copies of the character c.
Rep(c, n) == [i \in 1..n |-> c]

\* The cells a document given to the extractor is made of.
ExtractCells ==
    { Cell("markdown", <<"#", " ", "A", "b", "\n", "c", "d">>),
      Cell("markdown", <<"t", "e", "x", "t">>),
      Cell("markdown", <<"#", "#", " ", "A", "b", " ", "#">>),
      Cell("markdown", <<"#", " ", "C", "#", "\n", " ", "\n", " ", "d">>),
      Cell("markdown", <<" ", "\n">>),
      Cell("markdown", Rep("x", DescLimit)),
      Cell("markdown", <<"#", "T", "\n">> \o Rep("x", DescLimit + 1)),
      Cell("markdown", <<"c", "d", "\n", "#", " ", "A", "b">>),
      Cell("markdown", <<"p", "l", "o", "t", "l", "y">>),
      Cell("code", <<"P", "l", "o", "t", "l", "y", ".", "e">>),
      Cell("code", <<"x">>),
      Cell("raw", <<"p", "l", "o", "t", "l", "y">>),
      CellNoSource("code"),
      CellNoSource("markdown"),
      CellNoType(<<"y">>) }

\* The documents given to the extractor: up to MaxCells cells.
ExtractDocs ==
    {Unreadable} \cup
    {Notebook(cells) : cells \in UNION {[1..n -> ExtractCells] : n \in 0..MaxCells}}

\* The file names given to the extractor and to the link generator.
PureNames == {NbA, NbAB, NbTwice}

\* No file is involved: the functions get their arguments directly.
InitPure ==
    /\ baseExists = FALSE
    /\ folders = [d \in AllDirs |-> MissingDir]
    /\ docs = {}
    /\ mainReadme = <<>>
    /\ pc = "pure"
    /\ InitCommon
    /\ train_df = NoFrame

\* extract_notebook_metadata on a path whose file holds the document nb.
ExtractOn ==
    /\ pc = "pure"
    /\ \E name \in PureNames, nb \in ExtractDocs :
         LET notebook_path == PathJoin(FolderPath("model_training"), name)
             r == extract_notebook_metadata(notebook_path, nb)
         IN  /\ ret' = [fn |-> "extract_notebook_metadata",
                        notebook_path |-> notebook_path, nb |-> nb,
                        metadata |-> r.metadata, warned |-> r.warned]
             /\ trace' = IF r.warned
                         THEN <<[ev |-> "warn_notebook", key |-> "model_training"]>>
                         ELSE <<>>
    /\ pc' = "returned"
    /\ UNCHANGED <<baseExists, folders, docs, readme, mainReadme, clock, idx,
                   folders_processed, exit_status, summary, run, firstRun,
                   before, calls>>
    /\ UNCHANGED train_df

\* generate_notebook_links(notebook_file, folder)
LinksOn ==
    /\ pc = "pure"
    /\ \E notebook_file \in PureNames, folder \in CallKeys :
         LET r == generate_notebook_links(notebook_file, folder)
         IN  ret' = [fn |-> "generate_notebook_links",
                     notebook_file |-> notebook_file, folder |-> folder,
                     github_link |-> r.github_link, html_link |-> r.html_link]
    /\ pc' = "returned"
    /\ UNCHANGED <<baseExists, folders, docs, readme, mainReadme, clock, idx,
                   folders_processed, exit_status, trace, summary, run,
                   firstRun, before, calls>>
    /\ UNCHANGED train_df

\* The rows a frame is made of: a store with its sales and customers of a day.
FrameRows == [store : {1, 2}, sales : {0, 2}, customers : {0, 1}]

\* The frames given to analyze_top_performers.
TopFrames == UNION {[1..n -> FrameRows] : n \in 0..MaxRows}

\* df[df[target_col] > 0]
PositiveRows(df, target_col) == SelectSeq(df, LAMBDA row : row[target_col] > 0)

\* df.groupby(group_col)[target_col].mean(): per store, the sum and the
\* number of its rows, the mean being their quotient.
GroupAvg(df, target_col) ==
    [g \in {df[i].store : i \in DOMAIN df} |->
        LET rows == SelectSeq(df, LAMBDA row : row.store = g)
            Sum[i \in 0..Len(rows)] ==
                IF i = 0 THEN 0 ELSE Sum[i - 1] + rows[i][target_col]
        IN  [sum |-> Sum[Len(rows)], count |-> Len(rows)]]

\* One mean is greater than another.
MeanGreater(a, b) == a.sum * b.count > b.sum * a.count

\* group_avg.nlargest(top_n): the stores of the top_n greatest means, from
\* the greatest down, equal means in index order.
NLargest(group_avg, top_n) ==
    LET Ahead(g) == {h \in DOMAIN group_avg :
                        \/ MeanGreater(group_avg[h], group_avg[g])
                        \/ /\ ~MeanGreater(group_avg[g], group_avg[h])
                           /\ h < g}
        size == IF Cardinality(DOMAIN group_avg) < top_n
                THEN Cardinality(DOMAIN group_avg) ELSE top_n
    IN  [i \in 1..size |->
            CHOOSE g \in DOMAIN group_avg : Cardinality(Ahead(g)) = i - 1]

\* analyze_top_performers(df, 'store', target_col, top_n).  currency is
\* assigned in the body of the ranking loop only; the summary lines after
\* the loop read it, which raises UnboundLocalError when it was never
\* assigned.
analyze_top_performers(df, target_col, top_n) ==
    LET filtered       == PositiveRows(df, target_col)
        group_avg      == GroupAvg(filtered, target_col)
        top_performers == NLargest(group_avg, top_n)
        currency       == IF Len(top_performers) = 0 THEN "unbound"
                          ELSE IF target_col = "sales" THEN "EUR" ELSE ""
    IN  IF currency = "unbound"
        THEN [raised |-> TRUE, top_performers |-> <<>>,
              ranked |-> Len(top_performers)]
        ELSE [raised |-> FALSE, top_performers |-> top_performers,
              ranked |-> Len(top_performers)]

\* analyze_top_performers on a frame.
TopPerformersOn ==
    /\ pc = "pure"
    /\ \E df \in TopFrames, target_col \in {"sales", "customers"},
          top_n \in {1, 2} :
         LET r == analyze_top_performers(df, target_col, top_n)
         IN  ret' = [fn |-> "analyze_top_performers", df |-> df,
                     target_col |-> target_col, top_n |-> top_n,
                     raised |-> r.raised, top_performers |-> r.top_performers,
                     ranked |-> r.ranked]
    /\ pc' = "returned"
    /\ UNCHANGED <<baseExists, folders, docs, readme, mainReadme, clock, idx,
                   folders_processed, exit_status, trace, summary, run,
                   firstRun, before, calls, train_df>>

NextPure ==
    \/ ExtractOn
    \/ LinksOn
    \/ TopPerformersOn

SpecPure == InitPure /\ [][NextPure]_vars

\* ------------------------------------------------------------------------
\* OptimizedRetailSalesAnalyzer.run_complete_analysis
\* ------------------------------------------------------------------------
\* The four phase methods, in the order run_complete_analysis calls them.
Phases ==
    << "enhanced_summary_statistics", "exploratory_data_analysis",
       "time_series_analysis", "generate_insights" >>

\* The columns of a frame that decide what the phases do.
Columns == {"date", "store", "sales", "open"}

\* The frames an analyzer is built on: the columns present, the number of
\* distinct values of 'open', and the phases in which a pandas, matplotlib
\* or statsmodels call raises on this data.
Frames ==
    [columns : SUBSET Columns, open_values : {1, 2},
     raising : SUBSET Range(Phases)]

\* TRUE when the phase method raises on the frame.
\* enhanced_summary_statistics subscripts 'date' and 'store' unguarded;
\* exploratory_data_analysis draws the pie of 'open' with two labels;
\* time_series_analysis returns before any computation unless 'sales' and
\* 'open' are there; generate_insights only prints unless 'sales' is there.
PhaseRaises(method, df) ==
    CASE method = "enhanced_summary_statistics" ->
            \/ "date" \notin df.columns
            \/ "store" \notin df.columns
            \/ method \in df.raising
      [] method = "exploratory_data_analysis" ->
            \/ "open" \in df.columns /\ df.open_values # 2
            \/ method \in df.raising
      [] method = "time_series_analysis" ->
            /\ "sales" \in df.columns
            /\ "open" \in df.columns
            /\ method \in df.raising
      [] method = "generate_insights" ->
            /\ "sales" \in df.columns
            /\ method \in df.raising

\* An analyzer has been constructed on a frame; no file is involved.
InitAnalysis ==
    /\ baseExists = FALSE
    /\ folders = [d \in AllDirs |-> MissingDir]
    /\ docs = {}
    /\ mainReadme = <<>>
    /\ pc = "begin"
    /\ train_df \in Frames
    /\ InitCommon

\* Lines 571-572: the opening lines.
AnalysisBegin ==
    /\ pc = "begin"
    /\ Emit(<<[ev |-> "starting", key |-> ""]>>)
    /\ pc' = Phases[1]
    /\ UNCHANGED <<baseExists, folders, docs, readme, mainReadme, clock, idx,
                   folders_processed, exit_status, summary, run, firstRun,
                   before, ret, calls, train_df>>

\* Variant of RunPhase: an exception of the phase leaves the function.
RunPhaseUncaught(n) ==
    /\ pc = Phases[n]
    /\ IF PhaseRaises(Phases[n], train_df)
       THEN /\ Emit(<<[ev |-> "phase", key |-> Phases[n]]>>)
            /\ ret' = [fn |-> "run_complete_analysis", raised |-> TRUE]
            /\ pc' = "returned"
       ELSE /\ Emit(<<[ev |-> "phase", key |-> Phases[n]],
                      [ev |-> "return_phase", key |-> Phases[n]]>>)
            /\ ret' = ret
            /\ pc' = IF n < Len(Phases) THEN Phases[n + 1] ELSE "banner"
    /\ UNCHANGED <<baseExists, folders, docs, readme, mainReadme, clock, idx,
                   folders_processed, exit_status, summary, run, firstRun,
                   before, calls, train_df>>

\* One phase inside the try block: the "Phase n" line, then the method.
\* When the method raises, the except clause of lines 595-597 prints the
\* error and the function returns; otherwise the next statement is reached.
RunPhase(n) ==
    /\ pc = Phases[n]
    /\ IF PhaseRaises(Phases[n], train_df)
       THEN /\ Emit(<<[ev |-> "phase", key |-> Phases[n]],
                      [ev |-> "error_analysis", key |-> Phases[n]]>>)
            /\ ret' = [fn |-> "run_complete_analysis", raised |-> FALSE]
            /\ pc' = "returned"
       ELSE /\ Emit(<<[ev |-> "phase", key |-> Phases[n]],
                      [ev |-> "return_phase", key |-> Phases[n]]>>)
            /\ ret' = ret
            /\ pc' = IF n < Len(Phases) THEN Phases[n + 1] ELSE "banner"
    /\ UNCHANGED <<baseExists, folders, docs, readme, mainReadme, clock, idx,
                   folders_processed, exit_status, summary, run, firstRun,
                   before, calls, train_df>>

\* Lines 575-577
SummaryPhase == RunPhase(1)

\* Lines 579-581
ExploratoryPhase == RunPhase(2)

\* Lines 583-585
TimeSeriesPhase == RunPhase(3)

\* Lines 587-589
InsightsPhase == RunPhase(4)

\* Lines 591-593: the success banner, the last statement of the try block.
AnalysisBanner ==
    /\ pc = "banner"
    /\ Emit(<<[ev |-> "banner", key |-> ""]>>)
    /\ ret' = [fn |-> "run_complete_analysis", raised |-> FALSE]
    /\ pc' = "returned"
    /\ UNCHANGED <<baseExists, folders, docs, readme, mainReadme, clock, idx,
                   folders_processed, exit_status, summary, run, firstRun,
                   before, calls, train_df>>

NextAnalysis ==
    \/ AnalysisBegin
    \/ SummaryPhase
    \/ ExploratoryPhase
    \/ TimeSeriesPhase
    \/ InsightsPhase
    \/ AnalysisBanner

SpecAnalysis == InitAnalysis /\ [][NextAnalysis]_vars

\* ------------------------------------------------------------------------
\* Properties
\* ------------------------------------------------------------------------
\* Positions of the trace holding event e for folder k.
EventsOf(e, k) == {i \in DOMAIN trace : trace[i].ev = e /\ trace[i].key = k}

\* Positions of the trace holding event e.
EventsNamed(e) == {i \in DOMAIN trace : trace[i].ev = e}

\* Position of an identifier in folder_info.keys().
KeyIndex(k) == CHOOSE i \in 1..Len(FolderKeys) : FolderKeys[i] = k

\* The README.md of directory d was written by the generator.
GeneratedReadme(d) == readme[d] \notin {<<>>, OldReadme}

\* The table rows of a document, in order.
RowsOf(lines) == SelectSeq(lines, LAMBDA l : l.kind = "row")

\* The placeholder rows of a document.
PlaceholdersOf(lines) == SelectSeq(lines, LAMBDA l : l.kind = "placeholder")

\* The file name a row links to: what follows "notebooks/<folder>/" in the
\* source-view link, up to the closing parenthesis.
RowFile(row) ==
    LET v == row.view_options
        close == CHOOSE i \in 6..Len(v) :
                    v[i] = ")" /\ \A j \in 6..(i - 1) : v[j] # ")"
    IN  SubSeq(v, 6, close - 1)

\* The notebook files a directory holds.
NotebooksIn(d) == {f \in Range(folders[d].entries) : EndsWith(f, IpynbExt)}

\* Two documents agree on every line but the generation-timestamp lines.
SameExceptStamp(a, b) ==
    /\ Len(a) = Len(b)
    /\ \A i \in 1..Len(a) :
         \/ a[i] = b[i]
         \/ a[i].kind = "generated" /\ b[i].kind = "generated"

\* C1: whenever extract_notebook_metadata fails inside its try block, the
\* record it returns is the default-initialized one (default title, empty
\* description, flag false, counts zero).
FailedExtractionReturnsDefault ==
    (ret.fn = "extract_notebook_metadata" /\ ret.warned)
        => ret.metadata = DefaultMetadata(ret.notebook_path)

\* C2: when notebooks/ does not exist, main() exits with status 1 right
\* after the check: no builder is called and no README.md and no
\* NOTEBOOKS_README.md is written or modified.
BaseMissingStopsRun ==
    ~baseExists =>
        /\ pc \in {"start", "exited"}
        /\ pc = "exited" =>
             /\ exit_status = 1
             /\ trace = <<[ev |-> "error_base_missing", key |-> ""]>>
        /\ pc = "start" => trace = <<>>
        /\ readme = before.readme
        /\ mainReadme = before.mainReadme
        /\ folders = before.folders

\* C2 happens: the process has exited with status 1 next to an older
\* NOTEBOOKS_README.md.
BaseMissingExited ==
    /\ ~baseExists
    /\ pc = "exited"
    /\ exit_status = 1
    /\ mainReadme = OldReadme

\* C3: when notebooks/ exists, main() never exits with a failure status;
\* when it has completed, it has warned once for every missing folder and
\* not called the builder for it, has called the builder once for every
\* existing folder, has written the overview, and the exit status is 0.
MissingFoldersNeverAbort ==
    baseExists =>
        /\ exit_status \in {-1, 0}
        /\ pc # "exited"
        /\ pc = "done" =>
             /\ exit_status = 0
             /\ Cardinality(EventsNamed("write_main")) = 1
             /\ GeneratedReadme(UnknownKey) = FALSE
             /\ mainReadme \notin {<<>>, OldReadme}
             /\ \A k \in folder_info :
                  IF FolderExists(FolderPath(k))
                  THEN /\ Cardinality(EventsOf("call_folder", k)) = 1
                       /\ Cardinality(EventsOf("return_folder", k)) = 1
                       /\ EventsOf("warn_folder_missing", k) = {}
                       /\ GeneratedReadme(k)
                  ELSE /\ Cardinality(EventsOf("warn_folder_missing", k)) = 1
                       /\ EventsOf("call_folder", k) = {}

\* C3 happens: a run has completed with some folders missing and some
\* present.
PartialRunCompleted ==
    /\ pc = "done"
    /\ exit_status = 0
    /\ \E k \in folder_info : ~FolderExists(FolderPath(k))
    /\ \E k \in folder_info : FolderExists(FolderPath(k))

\* C4: after a second execution on unchanged notebooks and rendered
\* documents, every folder README.md and NOTEBOOKS_README.md equals what the
\* first execution wrote, except for the generation-timestamp line.
RerunIdempotent ==
    (firstRun.taken /\ pc \in {"done", "exited"}) =>
        /\ \A d \in AllDirs : SameExceptStamp(readme[d], firstRun.readme[d])
        /\ SameExceptStamp(mainReadme, firstRun.mainReadme)

\* C4 happens: a second execution has completed at a later minute, on a
\* folder with notebooks whose README.md was created by the first one.
RerunCompleted ==
    /\ firstRun.taken
    /\ pc = "done"
    /\ \E d \in folder_info :
         /\ folders[d].entries = Append(SmallListing, ReadmeName)
         /\ Len(RowsOf(readme[d])) = 2
         /\ readme[d] # firstRun.readme[d]

\* C5: a call of generate_folder_readme with an identifier that has no
\* descriptor prints the warning and returns: no README.md is created or
\* replaced, no directory is listed and no notebook is inspected.
UnknownKeyWritesNothing ==
    [][(/\ calls' = calls + 1
        /\ ret'.fn = "generate_folder_readme"
        /\ ret'.folder_key \notin folder_info)
       => (/\ readme' = readme
           /\ folders' = folders
           /\ mainReadme' = mainReadme
           /\ ~ret'.wrote
           /\ ~ret'.raised
           /\ trace' = <<[ev |-> "warn_no_info", key |-> ret'.folder_key]>>)]_vars

\* C5 happens: the builder was called with an unknown identifier on an
\* existing folder that holds notebooks and a README.md.
UnknownKeyCalled ==
    /\ ret.fn = "generate_folder_readme"
    /\ ret.folder_key \notin folder_info
    /\ FolderExists(ret.folder_path)
    /\ NotebooksIn(DirOf(ret.folder_path)) # {}
    /\ readme[DirOf(ret.folder_path)] = OldReadme

\* C6: the processed-folder counter of main() equals the number of folders
\* whose README.md was written in this run, and no missing folder is among
\* them.
ProcessedCountMatchesWrites ==
    pc \in {"folders", "summary", "done"} =>
        /\ folders_processed =
             Cardinality({k \in AllDirs : EventsOf("write_folder", k) # {}})
        /\ folders_processed = Cardinality(EventsNamed("write_folder"))
        /\ \A k \in folder_info :
             ~FolderExists(FolderPath(k)) => EventsOf("write_folder", k) = {}

\* C6 happens: a run has completed having processed some folders and
\* skipped others.
SomeFoldersCounted ==
    /\ pc = "done"
    /\ folders_processed \in 1..(Len(FolderKeys) - 1)

\* C7 as stated: the final summary lists a README path for every known
\* folder identifier, whether or not its subdirectory exists.
SummaryListsEveryKnownFolder ==
    pc = "done" =>
        summary = [i \in 1..Len(FolderKeys) |->
                      <<"notebooks/", FolderKeys[i], "/README.md">>]

\* C7 amended: the final summary lists a README path, derived from the
\* identifier alone, for exactly the known folders whose subdirectory
\* exists, in declaration order; these are the folders whose README.md was
\* written in this run.
SummaryListsExistingFolders ==
    pc = "done" =>
        /\ \A i \in DOMAIN summary :
             /\ summary[i][2] \in folder_info
             /\ summary[i] = <<"notebooks/", summary[i][2], "/README.md">>
        /\ \A i, j \in DOMAIN summary :
             i < j => KeyIndex(summary[i][2]) < KeyIndex(summary[j][2])
        /\ \A k \in folder_info :
             /\ (\E i \in DOMAIN summary : summary[i][2] = k)
                    <=> FolderExists(FolderPath(k))
             /\ (\E i \in DOMAIN summary : summary[i][2] = k)
                    <=> EventsOf("write_folder", k) # {}

\* C7 happens: a summary was printed in a run where some known folder is
\* missing and some is present.
SummaryWithMissingFolder ==
    /\ pc = "done"
    /\ Len(summary) \in 1..(Len(FolderKeys) - 1)

\* C8: in a run that passes the base-directory check, generate_main_readme
\* is called exactly once, after every folder-builder call has returned,
\* also when no folder was processed; the folder READMEs are written in
\* declaration order, all before NOTEBOOKS_README.md.
OverviewOnceAfterFolders ==
    LET mains  == EventsNamed("call_main")
        writes == EventsNamed("write_folder")
    IN  /\ pc \in {"start", "folders", "exited"} => mains = {}
        /\ pc \in {"summary", "done"} =>
             /\ Cardinality(mains) = 1
             /\ Cardinality(EventsNamed("write_main")) = 1
             /\ \A m \in mains, j \in DOMAIN trace :
                  trace[j].ev \in {"call_folder", "return_folder",
                                   "write_folder", "warn_folder_missing"}
                      => j < m
             /\ \A m \in mains, j \in EventsNamed("write_main") : m < j
        /\ \A i, j \in writes :
             i < j => KeyIndex(trace[i].key) < KeyIndex(trace[j].key)

\* C8 happens: a run has completed with notebooks/ present and no known
\* folder in it, and the overview was written.
OverviewWithNoFolders ==
    /\ pc = "done"
    /\ baseExists
    /\ folders_processed = 0
    /\ mainReadme \notin {<<>>, OldReadme}

\* C9: the rows of a generated folder README are in ascending order of the
\* notebook file names, one row for each directory entry that ends with
\* '.ipynb' and none for any other entry.
RowsSortedOnePerNotebook ==
    \A d \in folder_info :
        GeneratedReadme(d) =>
            LET rows  == RowsOf(readme[d])
                files == [i \in 1..Len(rows) |-> RowFile(rows[i])]
            IN  /\ \A i \in 1..(Len(files) - 1) : StrLess(files[i], files[i + 1])
                /\ Range(files) = NotebooksIn(d)

\* C9 happens: a README was generated for a folder whose directory order is
\* not sorted and which holds a file that is not a notebook.
UnsortedFolderGenerated ==
    \E d \in folder_info :
        /\ GeneratedReadme(d)
        /\ SubSeq(folders[d].entries, 1, 3) = <<NbB, NotesTxt, NbA>>
        /\ Len(RowsOf(readme[d])) = 2

\* C10: a generated folder README has exactly one placeholder row and no
\* notebook row when the folder holds no notebook, and exactly one row per
\* notebook and no placeholder row otherwise.
PlaceholderIffNoNotebooks ==
    \A d \in folder_info :
        GeneratedReadme(d) =>
            LET n == Cardinality(NotebooksIn(d))
            IN  IF n = 0
                THEN /\ Len(PlaceholdersOf(readme[d])) = 1
                     /\ Len(RowsOf(readme[d])) = 0
                     /\ readme[d][9] = PlaceholderRow
                ELSE /\ Len(RowsOf(readme[d])) = n
                     /\ Len(PlaceholdersOf(readme[d])) = 0

\* C10 happens: a README was generated for a folder without notebooks.
EmptyFolderGenerated ==
    \E d \in folder_info :
        /\ GeneratedReadme(d)
        /\ NotebooksIn(d) = {}
        /\ EventsOf("return_folder", d) # {}

\* C11: in a generated folder README every notebook has its row and the
\* document is complete, and the row of a notebook whose metadata extraction
\* failed carries the default title and the fallback description.
FailedNotebookGetsDefaultRow ==
    \A d \in folder_info :
        GeneratedReadme(d) =>
            LET rows == RowsOf(readme[d])
            IN  /\ {RowFile(rows[i]) : i \in 1..Len(rows)} = NotebooksIn(d)
                /\ readme[d][Len(readme[d])].kind = "generated"
                /\ \A i \in 1..Len(rows) :
                     LET notebook_path ==
                             PathJoin(FolderPath(d), RowFile(rows[i]))
                     IN  MetadataOf(FolderPath(d), RowFile(rows[i])).warned =>
                             /\ rows[i].title =
                                    DefaultMetadata(notebook_path).title
                             /\ rows[i].description = <<"Analysis notebook">>

\* The extractor was applied and did not fail.
Extracted == ret.fn = "extract_notebook_metadata" /\ ~ret.warned

\* A file name without its notebook extension.
WithoutExt(name) ==
    IF EndsWith(name, IpynbExt)
    THEN SubSeq(name, 1, Len(name) - Len(IpynbExt))
    ELSE name

\* The lines of the markdown cells of a document that start with '#'.
HeadingsIn(nb) ==
    UNION { LET lines == CellLines(nb.cells[i].source)
            IN  {<<i, j>> : j \in {j \in DOMAIN lines :
                                      StartsWith(lines[j], <<"#">>)}}
            : i \in {i \in DOMAIN nb.cells :
                        nb.cells[i].cell_type = "markdown"} }

\* C12: for a notebook that parses and has no heading line in any markdown
\* cell, the title is the file's base name with the notebook extension
\* removed, underscores replaced by spaces, and title-cased.
NoHeadingGivesNameTitle ==
    (Extracted /\ HeadingsIn(ret.nb) = {}) =>
        ret.metadata.title =
            Title(Replace(WithoutExt(Basename(ret.notebook_path)),
                          <<"_">>, <<" ">>))

\* The markdown cells of a document whose text is not blank.
TextCells(nb) ==
    {i \in DOMAIN nb.cells :
        /\ nb.cells[i].cell_type = "markdown"
        /\ Strip(nb.cells[i].source, Whitespace) # <<>>}

\* The first of them.
FirstTextCell(nb) == CHOOSE i \in TextCells(nb) : \A j \in TextCells(nb) : i <= j

\* C13: title and description come from the first markdown cell with
\* non-blank text only: they are what that cell alone would give, the title
\* stays the default when that cell has no heading line, and without such a
\* cell the title is the default and the description is empty.
OnlyFirstTextCellCounts ==
    Extracted =>
        LET default == DefaultMetadata(ret.notebook_path)
        IN  IF TextCells(ret.nb) = {}
            THEN /\ ret.metadata.title = default.title
                 /\ ret.metadata.description = <<>>
            ELSE LET k == FirstTextCell(ret.nb)
                     alone == extract_notebook_metadata(
                                  ret.notebook_path,
                                  Notebook(<<ret.nb.cells[k]>>)).metadata
                 IN  /\ ret.metadata.title = alone.title
                     /\ ret.metadata.description = alone.description
                     /\ (\A h \in HeadingsIn(ret.nb) : h[1] # k)
                            => ret.metadata.title = default.title

\* C13 happens: the first markdown cell with text has no heading, a later
\* markdown cell has one, and the title is the default.
LaterHeadingIgnored ==
    /\ Extracted
    /\ TextCells(ret.nb) # {}
    /\ \E h \in HeadingsIn(ret.nb) : h[1] > FirstTextCell(ret.nb)
    /\ \A h \in HeadingsIn(ret.nb) : h[1] # FirstTextCell(ret.nb)
    /\ ret.metadata.title = DefaultMetadata(ret.notebook_path).title
    /\ ret.metadata.description # <<>>

\* C14: when the examined markdown cell has a line starting with '#', the
\* title is the first such line without its leading '#' characters and
\* without surrounding whitespace; everything else, '#' characters at the
\* end of the heading text included, is kept.
TitleKeepsTrailingMarkers ==
    (/\ Extracted
     /\ TextCells(ret.nb) # {}
     /\ \E h \in HeadingsIn(ret.nb) : h[1] = FirstTextCell(ret.nb))
    => LET k     == FirstTextCell(ret.nb)
           lines == CellLines(ret.nb.cells[k].source)
           first == CHOOSE j \in DOMAIN lines :
                       /\ StartsWith(lines[j], <<"#">>)
                       /\ \A i \in 1..(j - 1) : ~StartsWith(lines[i], <<"#">>)
       IN  ret.metadata.title = Strip(LStrip(lines[first], {"#"}), Whitespace)

\* The positions, among the lines of a cell's text, of the lines that are
\* not blank and do not start with '#'.
CandidateLines(lines) ==
    {j \in DOMAIN lines :
        /\ \E i \in DOMAIN lines[j] : lines[j][i] \notin Whitespace
        /\ lines[j][1] # "#"}

\* C15: the description is the first line of the examined markdown cell that
\* is neither blank nor a heading; a line of more than 100 characters is
\* stored as its first 100 characters followed by '...', a line of 100
\* characters or fewer is stored as it is.
DescriptionIsFirstPlainLine ==
    (Extracted /\ TextCells(ret.nb) # {}) =>
        LET lines == CellLines(ret.nb.cells[FirstTextCell(ret.nb)].source)
            cand  == CandidateLines(lines)
            first == CHOOSE j \in cand : \A i \in cand : j <= i
            desc  == ret.metadata.description
        IN  IF cand = {} THEN desc = <<>>
            ELSE IF Len(lines[first]) <= 100 THEN desc = lines[first]
            ELSE /\ Len(desc) = 103
                 /\ SubSeq(desc, 1, 100) = SubSeq(lines[first], 1, 100)
                 /\ SubSeq(desc, 101, 103) = <<".", ".", ".">>

\* A line of 101 characters after a heading has been cut to 100 and '...'.
LongLineTruncated ==
    /\ Extracted
    /\ TextCells(ret.nb) # {}
    /\ LET lines == CellLines(ret.nb.cells[FirstTextCell(ret.nb)].source)
       IN  /\ Len(lines) = 2
           /\ lines[1][1] = "#"
           /\ Len(lines[2]) = 101
    /\ Len(ret.metadata.description) = 103

\* TRUE when the text names the plotting library in any mix of cases.
NamesPlotly(source) ==
    \E at \in 1..(Len(source) - 5) :
        /\ source[at]     \in {"p", "P"}
        /\ source[at + 1] \in {"l", "L"}
        /\ source[at + 2] \in {"o", "O"}
        /\ source[at + 3] \in {"t", "T"}
        /\ source[at + 4] \in {"l", "L"}
        /\ source[at + 5] \in {"y", "Y"}

\* C16: for a notebook that was read without a warning, has_plotly is true
\* exactly when some code cell's source names the plotting library, in any
\* mix of cases; markdown and raw cells do not count.
PlotlyFlagIffCodeCellNamesIt ==
    Extracted =>
        (ret.metadata.has_plotly <=>
            \E i \in DOMAIN ret.nb.cells :
                /\ ret.nb.cells[i].cell_type = "code"
                /\ ret.nb.cells[i].has_source
                /\ NamesPlotly(ret.nb.cells[i].source))

\* The library is named in a markdown cell only and the flag is false.
PlotlyOnlyInMarkdown ==
    /\ Extracted
    /\ ~ret.metadata.has_plotly
    /\ \E i \in DOMAIN ret.nb.cells :
          /\ ret.nb.cells[i].cell_type = "markdown"
          /\ ret.nb.cells[i].has_source
          /\ NamesPlotly(ret.nb.cells[i].source)

\* The library is named with a capital in a code cell and the flag is true.
PlotlyCapitalisedInCode ==
    /\ Extracted
    /\ ret.metadata.has_plotly
    /\ \E i \in DOMAIN ret.nb.cells :
          /\ ret.nb.cells[i].cell_type = "code"
          /\ ret.nb.cells[i].has_source
          /\ NamesPlotly(ret.nb.cells[i].source)
          /\ ~Contains(ret.nb.cells[i].source, PlotlyName)

\* TRUE once generate_notebook_links has returned.
Linked == ret.fn = "generate_notebook_links"

\* C17: generate_notebook_links gives 'notebooks/' + folder + '/' + file name
\* as the source view, and 'docs/' + the file name with its final '.ipynb',
\* and nothing else, replaced by '.html' as the rendered view.
LinksReplaceOnlyTheExtension ==
    Linked =>
        /\ ret.github_link =
              <<"notebooks", "/", ret.folder, "/">> \o ret.notebook_file
        /\ ret.html_link =
              <<"docs/">> \o WithoutExt(ret.notebook_file) \o HtmlExt

\* The rendered-view link of a row: what follows " * [HTML](" up to the
\* closing parenthesis, or <<>> when the row has no such link.
RowHtmlTarget(row) ==
    LET v == row.view_options
        opens == {i \in DOMAIN v : v[i] = " * [HTML]("}
    IN  IF opens = {} THEN <<>>
        ELSE LET open  == CHOOSE i \in opens : TRUE
                 close == CHOOSE i \in (open + 1)..Len(v) :
                             v[i] = ")" /\ \A j \in (open + 1)..(i - 1) : v[j] # ")"
             IN  SubSeq(v, open + 1, close - 1)

\* The row ends with the plotting marker.
RowHasMarker(row) == row.view_options[Len(row.view_options)] = " [chart]"

\* The rendered document of a notebook file: the file name with its
\* extension replaced, under docs/.
RenderedDoc(notebook_file) == WithoutExt(notebook_file) \o HtmlExt

\* C18: every row of a generated folder README starts with the source-view
\* link of its notebook, has a rendered-view link exactly when the rendered
\* document of the notebook exists in docs/, and ends with the plotting
\* marker exactly when the notebook's has_plotly is true, whether or not the
\* rendered-view link is there.
RowViewsFollowDiskAndFlag ==
    \A d \in folder_info :
        GeneratedReadme(d) =>
            \A i \in DOMAIN RowsOf(readme[d]) :
                LET row == RowsOf(readme[d])[i]
                    f   == RowFile(row)
                IN  /\ SubSeq(row.view_options, 1, 5 + Len(f) + 1) =
                          <<"[Code](", "notebooks", "/", d, "/">> \o f \o <<")">>
                    /\ (RowHtmlTarget(row) # <<>>) <=> (RenderedDoc(f) \in docs)
                    /\ RowHasMarker(row) <=>
                          MetadataOf(FolderPath(d), f).metadata.has_plotly

\* NOTEBOOKS_README.md was written by the generator.
GeneratedMain == mainReadme \notin {<<>>, OldReadme}

\* The known folders whose directory exists, in declaration order.
PresentKeys == SelectSeq(FolderKeys, LAMBDA k : baseExists /\ folders[k].exists)

\* Position of the line that opens the technical section.
TechnicalAt ==
    CHOOSE i \in DOMAIN mainReadme :
        mainReadme[i] = TextLine(<<"## Technical Notebooks">>)

\* Positions of the folder subheadings of the quick-access section.
QuickHeadings ==
    {i \in 9..(TechnicalAt - 1) :
        mainReadme[i].kind = "text" /\ mainReadme[i].text # <<>>}

\* Position of the n-th of them; the end of the section past the last.
QuickHeadingAt(n) ==
    IF n > Cardinality(QuickHeadings) THEN TechnicalAt
    ELSE CHOOSE i \in QuickHeadings :
            Cardinality({j \in QuickHeadings : j < i}) = n - 1

\* The notebooks of a directory whose rendered document exists in docs/.
RenderedIn(d) == {f \in NotebooksIn(d) : RenderedDoc(f) \in docs}

\* The n-th of a set of file names in ascending order.
NthFile(S, n) == CHOOSE f \in S : Cardinality({g \in S : StrLess(g, f)}) = n - 1

\* C19: in NOTEBOOKS_README.md the quick-access section has one subheading
\* for each known folder whose directory exists and none for the others, in
\* declaration order; under a subheading there is one link line for each
\* notebook of the folder whose rendered document exists and for no other,
\* in ascending order of the file names; the technical section has a
\* subheading and the description for the same folders in the same order.
OverviewListsRenderedNotebooks ==
    GeneratedMain =>
        /\ Cardinality(QuickHeadings) = Len(PresentKeys)
        /\ \A n \in DOMAIN PresentKeys :
             LET k     == PresentKeys[n]
                 from  == QuickHeadingAt(n)
                 to    == QuickHeadingAt(n + 1)
                 links == SelectSeq(SubSeq(mainReadme, from + 1, to - 1),
                                    LAMBDA l : l.kind = "link")
             IN  /\ mainReadme[from] = TextLine(<<"### ">> \o FolderTitle(k))
                 /\ Len(links) = Cardinality(RenderedIn(k))
                 /\ \A j \in DOMAIN links :
                      LET f == NthFile(RenderedIn(k), j)
                      IN  /\ links[j].title =
                                MetadataOf(FolderPath(k), f).metadata.title
                          /\ links[j].target = <<"docs/">> \o RenderedDoc(f)
        /\ SelectSeq(SubSeq(mainReadme, TechnicalAt + 4, Len(mainReadme) - 2),
                     LAMBDA l : l # TextLine(<<>>))
             = [i \in 1..(2 * Len(PresentKeys)) |->
                  LET k == PresentKeys[(i + 1) \div 2]
                  IN  IF i % 2 = 1
                      THEN TextLine(<<"### [">> \o FolderTitle(k)
                                    \o <<"](notebooks/", k, "/)">>)
                      ELSE TextLine(FolderDescription(k))]

\* C20: for every notebook of a folder whose README was generated, the path
\* whose existence generate_folder_readme checks is the target of the
\* rendered-view link it can put in the row, and a rendered-view link that
\* is in a row names the path that was checked.
CheckedPathIsLinkTarget ==
    \A d \in folder_info :
        GeneratedReadme(d) =>
            /\ \A f \in NotebooksIn(d) :
                 CheckedDocPath(f) = generate_notebook_links(f, d).html_link
            /\ \A i \in DOMAIN RowsOf(readme[d]) :
                 LET row == RowsOf(readme[d])[i]
                 IN  RowHtmlTarget(row) # <<>> =>
                        RowHtmlTarget(row) = CheckedDocPath(RowFile(row))

\* The folders generate_folder_readme was invoked for in the current run.
FoldersInvoked == {trace[i].key : i \in EventsNamed("call_folder")}

\* The folders with a subheading in the quick-access section.
FoldersInQuickAccess ==
    {k \in folder_info :
        \E i \in 9..(TechnicalAt - 1) :
            mainReadme[i] = TextLine(<<"### ">> \o FolderTitle(k))}

\* The folders with a subheading in the technical section.
FoldersInTechnical ==
    {k \in folder_info :
        \E i \in (TechnicalAt + 1)..Len(mainReadme) :
            mainReadme[i] = TextLine(<<"### [">> \o FolderTitle(k)
                                     \o <<"](notebooks/", k, "/)">>)}

\* C21: when a run of main() has ended, the folders that appear in
\* NOTEBOOKS_README.md, in either section, are the folders
\* generate_folder_readme was invoked for in that run, and each of them
\* holds a README.md written in that run.
OverviewFoldersAreBuiltFolders ==
    pc = "done" =>
        /\ FoldersInQuickAccess = FoldersInvoked
        /\ FoldersInTechnical = FoldersInvoked
        /\ \A k \in FoldersInvoked :
             /\ EventsOf("write_folder", k) # {}
             /\ readme[k] \notin {<<>>, OldReadme}
             /\ ReadmeName \in Range(folders[k].entries)

\* A run has ended in which some known folders were built and others were
\* missing.
SomeFoldersBuiltAndListed ==
    /\ pc = "done"
    /\ FoldersInvoked # {}
    /\ FoldersInvoked # folder_info
    /\ FoldersInTechnical # {}

\* The entries of a directory other than README.md, in directory order.
OtherEntries(entries) == SelectSeq(entries, LAMBDA f : f # ReadmeName)

\* C22: a step of the generator changes nothing but README.md in known
\* folders that exist and NOTEBOOKS_README.md: docs/ and notebooks/ stay as
\* they are, no directory appears or disappears, every directory keeps its
\* entries (README.md can be added to them, nothing is removed), and unknown
\* folders and their README.md are untouched.
OnlyReadmesAreWritten ==
    [][ /\ docs' = docs
        /\ baseExists' = baseExists
        /\ \A d \in AllDirs :
             /\ folders'[d].exists = folders[d].exists
             /\ OtherEntries(folders'[d].entries) = OtherEntries(folders[d].entries)
             /\ Range(folders[d].entries) \subseteq Range(folders'[d].entries)
             /\ (d \notin folder_info \/ ~FolderExists(FolderPath(d)))
                   => /\ folders'[d] = folders[d]
                      /\ readme'[d] = readme[d]
      ]_vars

\* A run has ended that created a README.md in a known folder next to other
\* files, with documents in docs/ and files in an unknown folder.
ReadmeCreatedBesideOtherFiles ==
    /\ pc = "done"
    /\ docs # {}
    /\ folders[UnknownKey].entries # <<>>
    /\ mainReadme \notin {<<>>, OldReadme}
    /\ \E k \in folder_info :
          /\ ReadmeName \notin Range(before.folders[k].entries)
          /\ ReadmeName \in Range(folders[k].entries)
          /\ OtherEntries(folders[k].entries) # <<>>

\* The phases whose "Phase n" line has been printed, in trace order.
PhasesStarted ==
    LET starts == SelectSeq(trace, LAMBDA e : e.ev = "phase")
    IN  [i \in DOMAIN starts |-> starts[i].key]

\* The phases whose method has returned.
PhasesCompleted == {trace[i].key : i \in EventsNamed("return_phase")}

\* C23: run_complete_analysis starts its phases in the order summary
\* statistics, exploratory analysis, time-series analysis, insights, each
\* after the one before it has returned; when a phase raises, the error is
\* printed, no later phase starts and the function returns to its caller
\* without raising; the success banner is printed exactly when all four
\* phases have returned, and after them.
PhasesInOrderErrorsCaught ==
    /\ PhasesStarted = SubSeq(Phases, 1, Len(PhasesStarted))
    /\ \A n \in DOMAIN PhasesStarted :
         n > 1 => Phases[n - 1] \in PhasesCompleted
    /\ \A n \in DOMAIN PhasesStarted :
         PhaseRaises(Phases[n], train_df) =>
            /\ Len(PhasesStarted) = n
            /\ EventsOf("error_analysis", Phases[n]) # {}
            /\ EventsNamed("banner") = {}
            /\ pc = "returned"
            /\ ret.raised = FALSE
    /\ EventsNamed("banner") # {} =>
         /\ PhasesCompleted = Range(Phases)
         /\ trace[Len(trace)].ev = "banner"
    /\ pc = "returned" =>
         /\ ret.fn = "run_complete_analysis"
         /\ ret.raised = FALSE
         /\ EventsNamed("banner") # {} <=> PhasesCompleted = Range(Phases)
         /\ Cardinality(EventsNamed("error_analysis")) + Cardinality(EventsNamed("banner")) = 1

\* The third phase raised after two phases had returned, and the function
\* has returned.
ThirdPhaseRaised ==
    /\ pc = "returned"
    /\ PhasesStarted = SubSeq(Phases, 1, 3)
    /\ PhasesCompleted = {Phases[1], Phases[2]}
    /\ PhaseRaises(Phases[3], train_df)

\* C24: analyze_top_performers returns on every frame, also on one without
\* a row of positive target value, where the ranking loop runs zero times;
\* what it returns are the stores with such rows, top_n of them at most.
TopPerformersAlwaysReturned ==
    ret.fn = "analyze_top_performers" =>
        /\ ~ret.raised
        /\ Range(ret.top_performers) \subseteq
              {ret.df[i].store : i \in {j \in DOMAIN ret.df :
                                           ret.df[j][ret.target_col] > 0}}
        /\ Len(ret.top_performers) <= ret.top_n

====
